---- MODULE Spec2Model ----
(***************************************************************************)
(* The PicoRV32 instruction wrappers (src/src/asm.rs) and the interrupt    *)
(* control layer built on maskirq (src/src/interrupt.rs).                  *)
(*                                                                         *)
(* A 32-bit register is the set of its bit positions that are 1, so a      *)
(* word is a subset of 0 .. 31, 0xffff_ffff is 0 .. 31 and 0 is {}.  One   *)
(* hardware thread runs: `stack' is its call stack, holding one frame per  *)
(* interrupt::free call in progress and one per interrupt taken.           *)
(***************************************************************************)
EXTENDS Naturals, Sequences

\* u32: the width of every register the wrappers read or write.
WordBits == 32

\* The deepest call stack from which interrupt::free is still called.
MaxDepth == 2

Lines == 0 .. (WordBits - 1)
\* 0xffff_ffff, the argument of maskirq in disable() and free().
AllOnes == Lines
\* 0, the argument of maskirq in enable().
AllZeros == {}
\* The timer interrupt is at offset 0 in the interrupt bitmask.
TimerLine == 0
\* Interrupt lines the environment raises.
IrqLines == {1}
\* Masks the software passes to maskirq: all enabled, partially masked, all masked.
MaskVals == {AllZeros, {1}, AllOnes}
\* The q-registers the wrappers reach, and the values written to them.
QIndex == {2, 3}
QVals == {{}, {0, 4}}
\* Cycle counts the software passes to timer.
CycleVals == {0, 1, 2}
\* Values a critical section's body returns.
Results == {7, 42}

VARIABLES
    riscv,        \* cfg(riscv): the build targets the processor
    irq_mask,     \* the IRQ mask register
    irq_pending,  \* the pending-IRQ bitmask
    irq_active,   \* an interrupt handler is running (until retirq)
    counter,      \* the timer counter
    stack,        \* frames of free calls and of the interrupt taken
    status,       \* "run", "wait" (in waitirq), "abort", "unwind"
    disarmed,     \* the last timer call passed 0
    qregs,        \* the q-registers q2 and q3
    last          \* the step just taken: operation, arguments, result

vars == <<riscv, irq_mask, irq_pending, irq_active, counter, stack, status,
          disarmed, qregs, last>>

\* What the step just taken did: op, the word and number passed (w, n), the
\* register contents before the step (pw, pn) and what it returned (rw, rn).
Obs(op, w, pw, rw, n, pn, rn) ==
    [op |-> op, w |-> w, pw |-> pw, rw |-> rw, n |-> n, pn |-> pn, rn |-> rn]

Env(op) == Obs(op, {}, {}, {}, 0, 0, 0)

FreeFrame(old, entry) ==
    [kind |-> "free", old_mask |-> old, entry |-> entry, dirty |-> FALSE]

HandlerFrame ==
    [kind |-> "handler", old_mask |-> {}, entry |-> {}, dirty |-> FALSE]

Top == stack[Len(stack)]

Pop(s) == SubSeq(s, 1, Len(s) - 1)

\* Every free call in progress has had the mask changed under it.
MarkDirty(s) ==
    [i \in 1 .. Len(s) |->
        IF s[i].kind = "free" THEN [s[i] EXCEPT !.dirty = TRUE] ELSE s[i]]

\* The mask left behind by a write of m is not all-ones inside a section.
Touch(s, m) == IF m = AllOnes THEN s ELSE MarkDirty(s)

\* The build is for the target or not; on the target the processor is out of
\* reset: every interrupt masked, none pending, the timer stopped.
Init ==
    /\ riscv \in BOOLEAN
    /\ irq_mask = AllOnes
    /\ irq_pending = {}
    /\ irq_active = FALSE
    /\ counter = 0
    /\ stack = <<>>
    /\ status = "run"
    /\ disarmed = FALSE
    /\ qregs = [i \in QIndex |-> {}]
    /\ last = Env("reset")

\* Mutant: the wrappers have a body on every platform.
SupportedAnywhere == TRUE

\* #[cfg(not(riscv))] () => unimplemented!(): a wrapper has a body only on the target.
Supported == riscv

\* unimplemented!(): the call aborts, nothing is read, written or returned.
Unimplemented(op) ==
    /\ status' = "abort"
    /\ last' = Env(op)
    /\ UNCHANGED <<riscv, irq_mask, irq_pending, irq_active, counter, stack, disarmed, qregs>>

\* Mutant: maskirq returns the value it has just written.
MaskirqRetNew(reg, m) == m

\* maskirq rd, rs1: rd receives the old value of the IRQ mask register ...
MaskirqRet(reg, m) == reg

\* ... and the register receives rs1, in the one instruction.
MaskirqNew(reg, m) == m

\* timer rd, rs1: rd receives the old value of the counter ...
TimerRet(cnt, c) == cnt

\* Mutant: timer leaves the counter as it was.
TimerNewKeeps(cnt, c) == cnt

\* ... and the counter receives rs1.
TimerNew(cnt, c) == c

\* Mutant: the timer interrupt is raised on every cycle of a running counter.
TimerFiresNonZero(cnt) == cnt > 0

\* The counter triggers the timer interrupt when transitioning from 1 to 0.
TimerFires(cnt) == cnt = 1

\* Mutant: the mask is ignored when an interrupt is taken.
DeliverableUnmasked(pending, mask) == pending

\* A 1 at any offset in the mask disables that interrupt.
Deliverable(pending, mask) == pending \ mask

\* Mutant: waitirq returns at once.
WaitirqReadyAlways(pending) == TRUE

\* waitirq pauses execution until an interrupt becomes pending.
WaitirqReady(pending) == pending # {}

\* Mutant: disable() writes 0.
DisableMaskZero == AllZeros

\* disable(): maskirq(0xffff_ffff).
DisableMask == AllOnes

\* Mutant: enable() writes 0xffff_ffff.
EnableMaskOnes == AllOnes

\* enable(): maskirq(0).
EnableMask == AllZeros

\* Mutant: free() writes 0 on entry.
FreeEntryMaskZero == AllZeros

\* free(): let old_mask = maskirq(0xffff_ffff).
FreeEntryMask == AllOnes

\* Mutant: free() enables every interrupt on exit.
FreeRestoreZero(old_mask) == AllZeros

\* Mutant: free() leaves every interrupt masked on exit.
FreeRestoreOnes(old_mask) == AllOnes

\* free(): maskirq(old_mask) once the body has returned.
FreeRestore(old_mask) == old_mask

\* free(): r, the value of f(..), is what free returns.
FreeResult(r) == r

MaskIrq(m) ==
    /\ status = "run"
    /\ IF Supported
       THEN /\ irq_mask' = MaskirqNew(irq_mask, m)
            /\ stack' = Touch(stack, MaskirqNew(irq_mask, m))
            /\ last' = Obs("maskirq", m, irq_mask, MaskirqRet(irq_mask, m), 0, 0, 0)
            /\ UNCHANGED <<riscv, irq_pending, irq_active, counter, status, disarmed, qregs>>
       ELSE Unimplemented("abort_maskirq")

Disable ==
    /\ status = "run"
    /\ IF Supported
       THEN /\ irq_mask' = MaskirqNew(irq_mask, DisableMask)
            /\ stack' = Touch(stack, MaskirqNew(irq_mask, DisableMask))
            /\ last' = Obs("disable", DisableMask, irq_mask, {}, 0, 0, 0)
            /\ UNCHANGED <<riscv, irq_pending, irq_active, counter, status, disarmed, qregs>>
       ELSE Unimplemented("abort_disable")

Enable ==
    /\ status = "run"
    /\ IF Supported
       THEN /\ irq_mask' = MaskirqNew(irq_mask, EnableMask)
            /\ stack' = Touch(stack, MaskirqNew(irq_mask, EnableMask))
            /\ last' = Obs("enable", EnableMask, irq_mask, {}, 0, 0, 0)
            /\ UNCHANGED <<riscv, irq_pending, irq_active, counter, status, disarmed, qregs>>
       ELSE Unimplemented("abort_enable")

\* free, up to the call of the body: the mask is read and replaced, the old
\* value kept in the frame (entry is the register as it stood at the call).
FreeEntry ==
    /\ status = "run"
    /\ Len(stack) < MaxDepth
    /\ IF Supported
       THEN /\ irq_mask' = MaskirqNew(irq_mask, FreeEntryMask)
            /\ stack' = Append(Touch(stack, MaskirqNew(irq_mask, FreeEntryMask)),
                               FreeFrame(MaskirqRet(irq_mask, FreeEntryMask), irq_mask))
            /\ last' = Obs("free_enter", FreeEntryMask, irq_mask,
                           MaskirqRet(irq_mask, FreeEntryMask), 0, 0, 0)
            /\ UNCHANGED <<riscv, irq_pending, irq_active, counter, status, disarmed, qregs>>
       ELSE Unimplemented("abort_free_enter")

\* free, from the return of the body with r: maskirq(old_mask), then r.
FreeExit(r) ==
    /\ status = "run"
    /\ stack # <<>>
    /\ Top.kind = "free"
    /\ irq_mask' = MaskirqNew(irq_mask, FreeRestore(Top.old_mask))
    /\ stack' = Touch(Pop(stack), MaskirqNew(irq_mask, FreeRestore(Top.old_mask)))
    /\ last' = Obs("free", FreeRestore(Top.old_mask), Top.entry, {},
                   r, Len(stack), FreeResult(r))
    /\ UNCHANGED <<riscv, irq_pending, irq_active, counter, status, disarmed, qregs>>

\* The body panics and the build aborts on panic: nothing runs afterwards.
BodyPanicAbort ==
    /\ status = "run"
    /\ stack # <<>>
    /\ Top.kind = "free"
    /\ status' = "abort"
    /\ last' = Env("panic")
    /\ UNCHANGED <<riscv, irq_mask, irq_pending, irq_active, counter, stack, disarmed, qregs>>

\* The body panics and the build unwinds: control leaves free, frame by
\* frame, without reaching maskirq(old_mask).  w is the mask at that moment,
\* n tells whether the mask was written to other than all-ones during the call.
BodyPanicUnwind ==
    /\ status \in {"run", "unwind"}
    /\ stack # <<>>
    /\ Top.kind = "free"
    /\ status' = "unwind"
    /\ stack' = Pop(stack)
    /\ last' = Obs("free_unwind", irq_mask, Top.entry, {},
                   IF Top.dirty THEN 1 ELSE 0, Len(stack), 0)
    /\ UNCHANGED <<riscv, irq_mask, irq_pending, irq_active, counter, disarmed, qregs>>

\* waitirq is issued: execution pauses.
WaitIrqCall ==
    /\ status = "run"
    /\ IF Supported
       THEN /\ status' = "wait"
            /\ last' = Obs("waitirq_call", {}, irq_mask, {}, 0, 0, 0)
            /\ UNCHANGED <<riscv, irq_mask, irq_pending, irq_active, counter, stack, disarmed, qregs>>
       ELSE Unimplemented("abort_waitirq")

\* waitirq completes: rd receives the bitmask of pending IRQs.  The mask
\* cannot change while the instruction is in progress, so pw is also the
\* mask waitirq was issued under.
WaitIrqReturn ==
    /\ riscv
    /\ status = "wait"
    /\ WaitirqReady(irq_pending)
    /\ status' = "run"
    /\ last' = Obs("waitirq", {}, irq_mask, irq_pending, 0, 0, 0)
    /\ UNCHANGED <<riscv, irq_mask, irq_pending, irq_active, counter, stack, disarmed, qregs>>

TimerCall(c) ==
    /\ status = "run"
    /\ IF Supported
       THEN /\ counter' = TimerNew(counter, c)
            /\ disarmed' = (c = 0)
            /\ last' = Obs("timer", {}, {}, {}, c, counter, TimerRet(counter, c))
            /\ UNCHANGED <<riscv, irq_mask, irq_pending, irq_active, stack, status, qregs>>
       ELSE Unimplemented("abort_timer")

\* getq rd, qN: rd receives the q-register.
Getq(i) ==
    /\ status = "run"
    /\ IF Supported
       THEN /\ last' = Obs("getq", {}, qregs[i], qregs[i], i, 0, 0)
            /\ UNCHANGED <<riscv, irq_mask, irq_pending, irq_active, counter, stack,
                           status, disarmed, qregs>>
       ELSE Unimplemented("abort_getq")

\* setq qN, rs1: the q-register receives val.
Setq(i, val) ==
    /\ status = "run"
    /\ IF Supported
       THEN /\ qregs' = [qregs EXCEPT ![i] = val]
            /\ last' = Obs("setq", val, qregs[i], {}, i, 0, 0)
            /\ UNCHANGED <<riscv, irq_mask, irq_pending, irq_active, counter, stack,
                           status, disarmed>>
       ELSE Unimplemented("abort_setq")

\* retirq: back to the interrupted code, interrupts re-enabled.
Retirq ==
    /\ status = "run"
    /\ IF Supported
       THEN /\ stack # <<>>
            /\ Top.kind = "handler"
            /\ stack' = Pop(stack)
            /\ irq_active' = FALSE
            /\ last' = Env("retirq")
            /\ UNCHANGED <<riscv, irq_mask, irq_pending, counter, status, disarmed, qregs>>
       ELSE Unimplemented("abort_retirq")

\* One clock cycle of a running counter.
Tick ==
    /\ riscv
    /\ status \in {"run", "wait"}
    /\ counter > 0
    /\ counter' = counter - 1
    /\ irq_pending' = IF TimerFires(counter)
                      THEN irq_pending \cup {TimerLine}
                      ELSE irq_pending
    /\ last' = Obs(IF TimerFires(counter) THEN "tick_fire" ELSE "tick",
                   {}, {}, {}, 0, counter, 0)
    /\ UNCHANGED <<riscv, irq_mask, irq_active, stack, status, disarmed, qregs>>

\* An interrupt line's condition comes to hold.
RaiseIrq(l) ==
    /\ riscv
    /\ status \in {"run", "wait"}
    /\ l \notin irq_pending
    /\ irq_pending' = irq_pending \cup {l}
    /\ last' = Env("raise")
    /\ UNCHANGED <<riscv, irq_mask, irq_active, counter, stack, status, disarmed, qregs>>

\* Between two instructions the processor takes the pending interrupts that
\* are not masked: the handler runs until retirq, no other is taken meanwhile.
IrqEntry ==
    /\ riscv
    /\ status = "run"
    /\ ~irq_active
    /\ Deliverable(irq_pending, irq_mask) # {}
    /\ irq_active' = TRUE
    /\ irq_pending' = irq_pending \ Deliverable(irq_pending, irq_mask)
    /\ stack' = Append(stack, HandlerFrame)
    /\ last' = Obs("irq", {}, irq_mask, Deliverable(irq_pending, irq_mask), 0, 0, 0)
    /\ UNCHANGED <<riscv, irq_mask, counter, status, disarmed, qregs>>

\* The interrupt-control layer, the wrappers it rests on, and the processor.
NextCore ==
    \/ \E m \in MaskVals : MaskIrq(m)
    \/ Disable
    \/ Enable
    \/ FreeEntry
    \/ \E r \in Results : FreeExit(r)
    \/ BodyPanicAbort
    \/ BodyPanicUnwind
    \/ WaitIrqCall
    \/ WaitIrqReturn
    \/ \E c \in CycleVals : TimerCall(c)
    \/ Retirq
    \/ Tick
    \/ \E l \in IrqLines : RaiseIrq(l)
    \/ IrqEntry

\* Every wrapper of the instruction layer, the q-register ones included.
Next ==
    \/ NextCore
    \/ \E i \in QIndex : Getq(i)
    \/ \E i \in QIndex, val \in QVals : Setq(i, val)

Spec == Init /\ [][Next]_vars

SpecCore == Init /\ [][NextCore]_vars

----
\* Frame i belongs to a free call under which the mask was only ever written
\* with all-ones.
Clean(i) == stack[i].kind = "free" /\ ~stack[i].dirty

\* Only free calls are in progress, and none had its mask disturbed.
NestedClean == \A i \in 1 .. Len(stack) : Clean(i)

\* C1: when free returns, the IRQ mask register equals, bit for bit, the value
\* it held when free was called, whatever that value was, and free returns the
\* value its body returned.
C1_FreeRestoresMask ==
    last.op = "free" => (irq_mask = last.pw /\ last.rn = last.n)

\* A free call entered under a partially masked register has returned 42.
C1_Witness ==
    last.op = "free" /\ last.pw = {1} /\ irq_mask = {1} /\ last.rn = 42

\* C2: while a body of free runs that has not had the mask written with a
\* value other than all-ones, the mask is all-ones and no interrupt handler
\* has been entered on top of it.
C2_BodyNotPreempted ==
    \A i \in 1 .. Len(stack) :
        Clean(i) => /\ irq_mask = AllOnes
                    /\ \A j \in i .. Len(stack) : stack[j].kind = "free"

\* A body is running while an interrupt is pending that the mask held on
\* entry would have let through.
C2_Witness ==
    /\ stack # <<>>
    /\ Clean(Len(stack))
    /\ status = "run"
    /\ ~irq_active
    /\ Deliverable(irq_pending, Top.entry) # {}

\* C3: in N nested free calls every inner call has saved all-ones and puts
\* all-ones back on its exit, the mask is all-ones from the outermost entry
\* to the outermost exit, and the outermost exit puts back the mask held
\* before the outermost call.
C3_NestedRestore ==
    /\ NestedClean =>
          /\ stack # <<>> => irq_mask = AllOnes
          /\ \A i \in 2 .. Len(stack) :
                stack[i].old_mask = AllOnes /\ stack[i].entry = AllOnes
          /\ (last.op = "free" /\ stack # <<>>) => last.w = AllOnes
    /\ (last.op = "free" /\ stack = <<>>) => (irq_mask = last.w /\ last.w = last.pw)

\* The innermost of MaxDepth nested calls has just returned, the outermost
\* having been entered with every interrupt enabled.
C3_Witness ==
    /\ last.op = "free"
    /\ last.pn = MaxDepth
    /\ Len(stack) = MaxDepth - 1
    /\ NestedClean
    /\ stack[1].entry = AllZeros

\* C4: maskirq(m) returns the value the register held and leaves the register
\* holding m, so that a maskirq(m) issued next returns m.
C4_MaskirqSwaps ==
    last.op = "maskirq" =>
        /\ last.rw = last.pw
        /\ irq_mask = last.w
        /\ MaskirqRet(irq_mask, last.w) = last.w

\* maskirq has replaced a partially masked register by another value.
C4_Witness ==
    last.op = "maskirq" /\ last.pw = {1} /\ last.w = AllZeros /\ last.rw = {1}

\* C5: disable() leaves the mask all-ones and enable() leaves it all-zeros,
\* from any previous mask, and a maskirq issued next reads that constant.
C5_DisableEnable ==
    /\ last.op = "disable" =>
          /\ irq_mask = AllOnes
          /\ \A m \in MaskVals : MaskirqRet(irq_mask, m) = AllOnes
    /\ last.op = "enable" =>
          /\ irq_mask = AllZeros
          /\ \A m \in MaskVals : MaskirqRet(irq_mask, m) = AllZeros

\* enable() has been called with some interrupts masked.
C5_Witness ==
    last.op = "enable" /\ last.pw = {1} /\ irq_mask = AllZeros

C7_Timer ==
    /\ last.op = "timer" => (last.rn = last.pn /\ counter = last.n)
    /\ last.op = "tick_fire" =>
          /\ last.pn = 1
          /\ counter = 0
          /\ TimerLine \in irq_pending
          /\ ~disarmed
    /\ last.op = "tick" => (last.pn > 1 /\ counter = last.pn - 1)
    /\ disarmed => counter = 0

\* timer(0) has stopped a counter that was running, and returned its value.
C7_Witness ==
    last.op = "timer" /\ last.n = 0 /\ last.rn = 2 /\ disarmed /\ counter = 0

\* C8: off the target every wrapper aborts without reading, writing or
\* returning anything, so disable(), enable() and free() abort too, free at
\* its entry maskirq with no body started.
C8_NonTargetAborts ==
    ~riscv =>
        /\ irq_mask = AllOnes
        /\ irq_pending = {}
        /\ counter = 0
        /\ qregs = [i \in QIndex |-> {}]
        /\ stack = <<>>
        /\ last.rw = {}
        /\ last.rn = 0
        /\ last.op # "reset" => status = "abort"

\* free has been called off the target.
C8_Witness ==
    ~riscv /\ status = "abort" /\ last.op = "abort_free_enter" /\ stack = <<>>

\* C9 (as amended): inside an interrupt handler free leaves the mask as it
\* found it, whatever it was; disable() leaves it all-ones, which is the mask
\* it found only when that was all-ones already.
C9_InHandler ==
    irq_active =>
        /\ last.op = "free" => irq_mask = last.pw
        /\ last.op = "disable" =>
              /\ irq_mask = AllOnes
              /\ (irq_mask = last.pw) <=> (last.pw = AllOnes)

\* A handler entered with interrupts enabled has called free, and free has
\* returned to it.
C9_Witness ==
    /\ irq_active
    /\ last.op = "free"
    /\ last.pw = AllZeros
    /\ Top.kind = "handler"

\* C9 as stated: inside an interrupt handler neither free nor disable()
\* changes the mask.
C9_Original ==
    (irq_active /\ last.op \in {"free", "disable"}) => irq_mask = last.pw

\* C10 (as amended): free puts the saved mask back when its body returns; when
\* a panic unwinds out of the body the mask is left as the body left it,
\* all-ones if the body only ever wrote all-ones.
C10_ExitPaths ==
    /\ last.op = "free" => irq_mask = last.pw
    /\ last.op = "free_unwind" =>
          /\ irq_mask = last.w
          /\ last.n = 0 => irq_mask = AllOnes

\* A panic has unwound out of a free call entered with interrupts enabled,
\* and they are still all masked.
C10_Witness ==
    /\ last.op = "free_unwind"
    /\ last.pw = AllZeros
    /\ irq_mask = AllOnes
    /\ stack = <<>>

\* C10 as stated: by whatever path control leaves free, the mask equals its
\* value on entry.
C10_Original ==
    last.op \in {"free", "free_unwind"} => irq_mask = last.pw

====
